---- MODULE Spec2Model ----
(***************************************************************************)
(* Kingdomino rules engine (src/kingdomino.py): the player's grid, the     *)
(* region search, the scorer, the placement enumerator and the draft/turn  *)
(* state machine Game.step.                                                *)
(***************************************************************************)
EXTENDS Integers, Sequences, FiniteSets, TLC

VARIABLES
    deck,      \* Game.deck: the tile numbers still to be dealt, top of the deck last
    slots,     \* Game.slots: group 0 and group 1, four (tile, player) slots each
    grid,      \* Player.grid of every player: the 10 x 10 array of cells
    ret,       \* what the last call returned, or the exception it raised
    offer,     \* what the last step() handed to the active player's strategy
    decision,  \* what that strategy returned
    strikes,   \* decisions so far that were not the default player's
    hand       \* the tile a stand-alone player is looking at (0: none)

vars == <<deck, slots, grid, ret, offer, decision, strikes, hand>>

----------------------------------------------------------------------------
(* Environment, Cell, Tile and the catalog ALL_TILES.                      *)

Environment == {"BASE", "EMPTY", "WHEAT", "FOREST", "OCEAN", "PASTURE", "SWAMP", "MINE"}

Cell(environment, crowns) == [environment |-> environment, crowns |-> crowns]

EmptyCell == Cell("EMPTY", 0)

Tile(number, env1, crowns1, env2, crowns2) ==
    [number |-> number, cells |-> <<Cell(env1, crowns1), Cell(env2, crowns2)>>]

ALL_TILES == <<
    Tile(1, "WHEAT", 0, "WHEAT", 0),
    Tile(2, "WHEAT", 0, "WHEAT", 0),
    Tile(3, "FOREST", 0, "FOREST", 0),
    Tile(4, "FOREST", 0, "FOREST", 0),
    Tile(5, "FOREST", 0, "FOREST", 0),
    Tile(6, "FOREST", 0, "FOREST", 0),
    Tile(7, "OCEAN", 0, "OCEAN", 0),
    Tile(8, "OCEAN", 0, "OCEAN", 0),
    Tile(9, "OCEAN", 0, "OCEAN", 0),
    Tile(10, "PASTURE", 0, "PASTURE", 0),
    Tile(11, "PASTURE", 0, "PASTURE", 0),
    Tile(12, "SWAMP", 0, "SWAMP", 0),
    Tile(13, "WHEAT", 0, "FOREST", 0),
    Tile(14, "WHEAT", 0, "OCEAN", 0),
    Tile(15, "WHEAT", 0, "PASTURE", 0),
    Tile(16, "WHEAT", 0, "SWAMP", 0),
    Tile(17, "FOREST", 0, "OCEAN", 0),
    Tile(18, "FOREST", 0, "PASTURE", 0),
    Tile(19, "WHEAT", 1, "FOREST", 0),
    Tile(20, "WHEAT", 1, "OCEAN", 0),
    Tile(21, "WHEAT", 1, "PASTURE", 0),
    Tile(22, "WHEAT", 1, "SWAMP", 0),
    Tile(23, "WHEAT", 1, "MINE", 0),
    Tile(24, "FOREST", 1, "WHEAT", 0),
    Tile(25, "FOREST", 1, "WHEAT", 0),
    Tile(26, "FOREST", 1, "WHEAT", 0),
    Tile(27, "FOREST", 1, "WHEAT", 0),
    Tile(28, "FOREST", 1, "OCEAN", 0),
    Tile(29, "FOREST", 1, "PASTURE", 0),
    Tile(30, "OCEAN", 1, "WHEAT", 0),
    Tile(31, "OCEAN", 1, "WHEAT", 0),
    Tile(32, "OCEAN", 1, "FOREST", 0),
    Tile(33, "OCEAN", 1, "FOREST", 0),
    Tile(34, "OCEAN", 1, "FOREST", 0),
    Tile(35, "OCEAN", 1, "FOREST", 0),
    Tile(36, "WHEAT", 0, "PASTURE", 1),
    Tile(37, "OCEAN", 0, "PASTURE", 1),
    Tile(38, "WHEAT", 0, "SWAMP", 1),
    Tile(39, "PASTURE", 0, "SWAMP", 1),
    Tile(40, "MINE", 1, "WHEAT", 0),
    Tile(41, "WHEAT", 0, "PASTURE", 2),
    Tile(42, "OCEAN", 0, "PASTURE", 2),
    Tile(43, "WHEAT", 0, "SWAMP", 2),
    Tile(44, "PASTURE", 0, "SWAMP", 2),
    Tile(45, "MINE", 2, "WHEAT", 0),
    Tile(46, "SWAMP", 0, "MINE", 2),
    Tile(47, "SWAMP", 0, "MINE", 2),
    Tile(48, "WHEAT", 0, "MINE", 3)
>>

\* None, for a tile and for a player.
None == 0

----------------------------------------------------------------------------
(* Player: the grid and its accessors.                                     *)

\* The grid is a 10 x 10 array; at() serves the coordinates -4..4 of it.
GridSize == 10
GridOffset == 5
Lo == -4
Hi == 4

Index == 0..(GridSize - 1)
Coords == (Lo..Hi) \X (Lo..Hi)
Origin == <<0, 0>>

\* Player.__init__: every cell empty, then the base at the origin.
NewGrid ==
    [i \in Index |-> [j \in Index |->
        IF i = 0 + GridOffset /\ j = 0 + GridOffset THEN Cell("BASE", 0) ELSE EmptyCell]]

\* The four assertions of at().
AtAsserts(coord) ==
    /\ coord[1] > Lo - 1
    /\ coord[1] < Hi + 1
    /\ coord[2] > Lo - 1
    /\ coord[2] < Hi + 1

\* at(): the cell at a coordinate that passed the assertions.
at(g, coord) == g[coord[1] + GridOffset][coord[2] + GridOffset]

\* A list index as Python resolves it: negative indexes count from the end,
\* anything else outside the list raises IndexError (-1 here).
ListIndex(i) ==
    IF i \in Index THEN i
    ELSE IF i < 0 /\ i + GridSize \in Index THEN i + GridSize
    ELSE -1

\* set_cell(): no check of its own, only the list's indexing.
SetCellRaises(coord) ==
    ListIndex(coord[1] + GridOffset) = -1 \/ ListIndex(coord[2] + GridOffset) = -1

set_cell(g, coord, cell) ==
    IF SetCellRaises(coord) THEN g
    ELSE LET i == ListIndex(coord[1] + GridOffset)
             j == ListIndex(coord[2] + GridOffset)
         IN  [g EXCEPT ![i][j] = cell]

\* Whether set_tile() raises, at its first or at its second set_cell().
SetTileRaises(placement) == SetCellRaises(placement[1]) \/ SetCellRaises(placement[2])

\* Mutant: the cells of the tile are laid the other way round.
set_tileSwapped(g, placement, tile) ==
    IF SetCellRaises(placement[1]) THEN g
    ELSE set_cell(set_cell(g, placement[1], tile.cells[2]), placement[2], tile.cells[1])

\* set_tile(): the first cell is written before the second is attempted.
set_tile(g, placement, tile) ==
    IF SetCellRaises(placement[1]) THEN g
    ELSE set_cell(set_cell(g, placement[1], tile.cells[1]), placement[2], tile.cells[2])

\* Mutant: only the lower and the left neighbour are yielded.
adjLowerLeft(coord) ==
    (IF coord[2] > Lo THEN << <<coord[1], coord[2] - 1>> >> ELSE <<>>) \o
    (IF coord[1] > Lo THEN << <<coord[1] - 1, coord[2]>> >> ELSE <<>>)

\* adj(): the neighbours inside the grid, in the order lower, left, right, upper.
adj(coord) ==
    (IF coord[2] > Lo THEN << <<coord[1], coord[2] - 1>> >> ELSE <<>>) \o
    (IF coord[1] > Lo THEN << <<coord[1] - 1, coord[2]>> >> ELSE <<>>) \o
    (IF coord[1] < Hi THEN << <<coord[1] + 1, coord[2]>> >> ELSE <<>>) \o
    (IF coord[2] < Hi THEN << <<coord[1], coord[2] + 1>> >> ELSE <<>>)

Range(s) == {s[i] : i \in DOMAIN s}

----------------------------------------------------------------------------
(* Player.search: the region search.                                       *)

\* hist = set(q[0]) holds the two integers of the origin tuple, not the
\* tuple: as a set of coordinates it starts empty.
InitialHist(origin) == {}

\* The for loop over adj(loc): q and hist after the neighbours ns of loc.
RECURSIVE SearchAdj(_, _, _, _, _)
SearchAdj(g, loc, ns, q, hist) ==
    IF ns = <<>> THEN [q |-> q, hist |-> hist]
    ELSE LET c == Head(ns) IN
         IF c \in hist \/ at(g, c).environment = "EMPTY"
         THEN SearchAdj(g, loc, Tail(ns), q, hist)
         ELSE IF at(g, c).environment = at(g, loc).environment
              THEN SearchAdj(g, loc, Tail(ns), <<c>> \o q, hist \cup {c})
              ELSE SearchAdj(g, loc, Tail(ns), Append(q, c), hist \cup {c})

\* The while loop: pop the head, yield it, queue its neighbours.
RECURSIVE SearchLoop(_, _, _, _)
SearchLoop(g, q, hist, out) ==
    IF q = <<>> THEN out
    ELSE LET loc == Head(q)
             r == SearchAdj(g, loc, adj(loc), Tail(q), hist)
         IN  SearchLoop(g, r.q, r.hist, Append(out, loc))

\* The sequence of coordinates search(origin) yields.
search(g, origin) == SearchLoop(g, <<origin>>, InitialHist(origin), <<>>)

----------------------------------------------------------------------------
(* Player.score.                                                           *)

\* The body of the for loop over the visited cells, on the running totals.
RECURSIVE ScoreLoop(_, _, _, _, _, _)
ScoreLoop(g, locs, env, crowns, contiguous, total) ==
    IF locs = <<>> THEN total + crowns * contiguous
    ELSE LET c == at(g, Head(locs)) IN
         IF c.environment # env
         THEN ScoreLoop(g, Tail(locs), c.environment, c.crowns, 1,
                        total + crowns * contiguous)
         ELSE ScoreLoop(g, Tail(locs), env, crowns + c.crowns, contiguous + 1, total)

score(g) == ScoreLoop(g, search(g, Origin), "EMPTY", 0, 0, 0)

----------------------------------------------------------------------------
(* Player.tile_adj and Player.enumerate_valid_placings.                    *)

\* The six placings tile_adj yields for one dy, and for one dx.
TileAdjDy(x, y, dy) == <<
    << <<x, y + dy>>, <<x, y + 2 * dy>> >>,
    << <<x, y + 2 * dy>>, <<x, y + dy>> >>,
    << <<x - 1, y + dy>>, <<x, y + dy>> >>,
    << <<x, y + dy>>, <<x - 1, y + dy>> >>,
    << <<x, y + dy>>, <<x + 1, y + dy>> >>,
    << <<x + 1, y + dy>>, <<x, y + dy>> >> >>

TileAdjDx(x, y, dx) == <<
    << <<x + dx, y>>, <<x + 2 * dx, y>> >>,
    << <<x + 2 * dx, y>>, <<x + dx, y>> >>,
    << <<x + dx, y>>, <<x + dx, y + 1>> >>,
    << <<x + dx, y + 1>>, <<x + dx, y>> >>,
    << <<x + dx, y>>, <<x + dx, y - 1>> >>,
    << <<x + dx, y - 1>>, <<x + dx, y>> >> >>

tile_adj(loc) ==
    TileAdjDy(loc[1], loc[2], -1) \o TileAdjDy(loc[1], loc[2], 1) \o
    TileAdjDx(loc[1], loc[2], -1) \o TileAdjDx(loc[1], loc[2], 1)

Min(S) == CHOOSE m \in S : \A n \in S : m <= n
Max(S) == CHOOSE m \in S : \A n \in S : m >= n

\* The non-empty cells the double loop over range(-4, 5) finds.
Occupied(g) == {c \in Coords : at(g, c).environment # "EMPTY"}

\* min_x, max_x, min_y, max_y: seeded with 0.
BoundingBox(g) ==
    LET occ == Occupied(g)
        xs == {0} \cup {c[1] : c \in occ}
        ys == {0} \cup {c[2] : c \in occ}
    IN  [min_x |-> Min(xs), max_x |-> Max(xs), min_y |-> Min(ys), max_y |-> Max(ys)]

\* The 5x5 rule: the spans that make the enumerator skip a placing.
MaxSpan == 5

\* Mutant: the rejection test of the earlier draft, off by one.
SpanTooWideOffByOne(lo, hi) == hi - lo > MaxSpan

SpanTooWide(lo, hi) == hi - lo >= MaxSpan

\* Mutant: only the first cell of the placing is measured.
Breaks5x5FirstCellOnly(box, placing) ==
    \/ SpanTooWide(Min({box.min_x, placing[1][1]}), Max({box.max_x, placing[1][1]}))
    \/ SpanTooWide(Min({box.min_y, placing[1][2]}), Max({box.max_y, placing[1][2]}))

Breaks5x5(box, placing) ==
    LET x_lo == Min({box.min_x, placing[1][1], placing[2][1]})
        x_hi == Max({box.max_x, placing[1][1], placing[2][1]})
        y_lo == Min({box.min_y, placing[1][2], placing[2][2]})
        y_hi == Max({box.max_y, placing[1][2], placing[2][2]})
    IN  SpanTooWide(x_lo, x_hi) \/ SpanTooWide(y_lo, y_hi)

\* any(c for c in placing if self.at(c).environment != EMPTY): the cells are
\* looked up in order, and a look-up outside the grid trips at()'s assertion.
Collides(g, placing) ==
    IF ~AtAsserts(placing[1]) THEN "assert"
    ELSE IF at(g, placing[1]).environment # "EMPTY" THEN "yes"
    ELSE IF ~AtAsserts(placing[2]) THEN "assert"
    ELSE IF at(g, placing[2]).environment # "EMPTY" THEN "yes"
    ELSE "no"

\* Mutant: every cell of the placing is matched against the tile's first cell.
CellMatchesFirstCell(g, tile, i, c) ==
    \E a \in Range(adj(c)) :
        at(g, a).environment \in {"BASE", tile.cells[1].environment}

\* has_match: cell i of the placing against cell i of the tile.
CellMatches(g, tile, i, c) ==
    \E a \in Range(adj(c)) :
        LET adj_env == at(g, a).environment IN
        adj_env = "BASE" \/ adj_env = tile.cells[i].environment

HasMatch(g, tile, placing) ==
    \E i \in 1..2 : CellMatches(g, tile, i, placing[i])

\* The placings considered: tile_adj of every cell the search yields (hist
\* makes each count once).
Candidates(g) == UNION {Range(tile_adj(loc)) : loc \in Range(search(g, Origin))}

\* The placings that get past the 5x5 rule and reach the look-ups of at().
Considered(g) ==
    LET box == BoundingBox(g) IN {pl \in Candidates(g) : ~Breaks5x5(box, pl)}

\* enumerate_valid_placings()/valid_placings(): the set of placings yielded.
valid_placings(g, tile) ==
    {pl \in Considered(g) : Collides(g, pl) = "no" /\ HasMatch(g, tile, pl)}

\* Whether computing valid_placings trips the assertion of at().
EnumeratorAsserts(g) == \E pl \in Considered(g) : Collides(g, pl) = "assert"

----------------------------------------------------------------------------
(* State shared by the specifications.                                     *)

Players == 1..4

NoSlot == [tile |-> None, player |-> None]
\* What a step did (its active player, and the tile and choices it handed to
\* the strategy), and what the strategy returned.
NoOffer == [kind |-> "none", player |-> None, tile |-> None, choices |-> <<>>]
NoDecision == [kind |-> "none", tile |-> None, placing |-> <<>>]

----------------------------------------------------------------------------
(* A stand-alone Player (as in test1): tiles are looked at with             *)
(* valid_placings and laid with set_tile at one of the placings returned.  *)

\* How many tiles the stand-alone player lays, and the tiles it is handed.
MaxPlaced == 2
Dealt == <<19, 1, 12, 20>>
Probes == {12, 24}

NumPlaced(g) == (Cardinality(Occupied(g)) - 1) \div 2

InitGrid ==
    /\ deck = <<>>
    /\ slots = [group \in 0..1 |-> [i \in 1..4 |-> NoSlot]]
    /\ grid = [p \in Players |-> NewGrid]
    /\ ret = "True"
    /\ offer = NoOffer
    /\ decision = NoDecision
    /\ strikes = 0
    /\ hand = None

\* The player picks up a tile: the next one to lay, or one only to look at.
PickUp ==
    /\ \E t \in Probes \cup {Dealt[((NumPlaced(grid[1])) % Len(Dealt)) + 1]} : hand' = t
    /\ UNCHANGED <<deck, slots, grid, ret, offer, decision, strikes>>

\* The player lays the tile in hand at one of valid_placings(tile).
Lay ==
    /\ hand # None
    /\ NumPlaced(grid[1]) < MaxPlaced
    /\ hand = Dealt[(NumPlaced(grid[1]) % Len(Dealt)) + 1]
    /\ \E placing \in valid_placings(grid[1], ALL_TILES[hand]) :
          grid' = [grid EXCEPT ![1] = set_tile(grid[1], placing, ALL_TILES[hand])]
    /\ hand' = None
    /\ UNCHANGED <<deck, slots, ret, offer, decision, strikes>>

NextGrid == PickUp \/ Lay

SpecGrid == InitGrid /\ [][NextGrid]_vars

----------------------------------------------------------------------------
(* Game: construction, _draw and _deal.                                    *)

\* random.shuffle(self.deck): the decks the model starts from. Deck k is the
\* catalog permuted by i -> i * k mod 49.
Seeds == {5, 11}
Shuffled(k) == [i \in 1..Len(ALL_TILES) |-> (i * k) % (Len(ALL_TILES) + 1)]

\* The tiles a draw takes: the last four of the deck.
DrawSize == 4

\* sort(key=lambda tile: tile.number) of a set of drawn tile numbers.
RECURSIVE SortAscending(_)
SortAscending(S) ==
    IF S = {} THEN <<>> ELSE <<Min(S)>> \o SortAscending(S \ {Min(S)})

\* Mutant: the tiles are read from the other end of the deck.
DrawnFromFront(d) == SubSeq(d, 1, Min({DrawSize, Len(d)}))

Drawn(d) == SubSeq(d, Max({1, Len(d) - DrawSize + 1}), Len(d))

\* Mutant: one of the drawn tiles stays on the deck.
DeckAfterDrawKeepsOne(d) == SubSeq(d, 1, Max({0, Len(d) - DrawSize + 1}))

\* _draw(): the deck without its last four tiles, and these four, sorted, as
\* slots with no player.
DeckAfterDraw(d) == SubSeq(d, 1, Max({0, Len(d) - DrawSize}))

\* Mutant: the drawn tiles are not sorted.
_drawUnsorted(d) ==
    [i \in DOMAIN Drawn(d) |-> [tile |-> Drawn(d)[i], player |-> None]]

_draw(d) ==
    LET sorted == SortAscending(Range(Drawn(d)))
    IN  [i \in DOMAIN sorted |-> [tile |-> sorted[i], player |-> None]]

\* Game.__init__: players are numbered in their shuffled order, group 0 holds
\* them with no tile, group 1 the first draw.
InitGame ==
    \E k \in Seeds :
        /\ deck = DeckAfterDraw(Shuffled(k))
        /\ slots = [group \in 0..1 |->
                      IF group = 0
                      THEN [i \in 1..4 |-> [tile |-> None, player |-> i]]
                      ELSE _draw(Shuffled(k))]
    /\ grid = [p \in Players |-> NewGrid]
    /\ ret = "True"
    /\ offer = NoOffer
    /\ decision = NoDecision
    /\ strikes = 0
    /\ hand = None

\* The assertion of _deal().
DealAsserts == \A i \in DOMAIN slots[0] : slots[0][i] = NoSlot

----------------------------------------------------------------------------
(* Game.step.                                                              *)

\* The index of the first slot of group 0 that holds a player (0: none).
ActiveSlot ==
    IF \E i \in DOMAIN slots[0] : slots[0][i].player # None
    THEN Min({i \in DOMAIN slots[0] : slots[0][i].player # None})
    ELSE 0

whose_turn == IF ActiveSlot = 0 THEN None ELSE slots[0][ActiveSlot].player
whose_tile == IF ActiveSlot = 0 THEN None ELSE slots[0][ActiveSlot].tile

\* Mutant: any token on group 1 counts as the active player's.
has_chosenAnyone == \E i \in DOMAIN slots[1] : slots[1][i].player # None

has_chosen == \E i \in DOMAIN slots[1] : slots[1][i].player = whose_turn

\* Mutant: every tile of group 1 is offered, claimed or not.
RECURSIVE UnclaimedAll(_, _)
UnclaimedAll(group, i) ==
    IF i > Len(group) THEN <<>>
    ELSE <<group[i].tile>> \o UnclaimedAll(group, i + 1)

\* choices: the tiles of group 1 no player has claimed, in slot order.
RECURSIVE Unclaimed(_, _)
Unclaimed(group, i) ==
    IF i > Len(group) THEN <<>>
    ELSE (IF group[i].player = None THEN <<group[i].tile>> ELSE <<>>) \o Unclaimed(group, i + 1)

choices == Unclaimed(slots[1], 1)

\* Mutant: the token is moved from group 0 to the choice.
ClaimAndClear(choice, player) ==
    IF \E i \in DOMAIN slots[1] : slots[1][i].tile = choice
    THEN LET i == Min({j \in DOMAIN slots[1] : slots[1][j].tile = choice})
             k == Min({j \in DOMAIN slots[0] : slots[0][j].player = player})
         IN  [slots EXCEPT ![1][i] = [tile |-> choice, player |-> player],
                           ![0][k] = NoSlot]
    ELSE slots

\* The slots after the player's token is put on its choice: the first slot of
\* group 1 holding that tile, whoever claimed it before.
Claim(choice, player) ==
    IF \E i \in DOMAIN slots[1] : slots[1][i].tile = choice
    THEN LET i == Min({j \in DOMAIN slots[1] : slots[1][j].tile = choice})
         IN  [slots EXCEPT ![1][i] = [tile |-> choice, player |-> player]]
    ELSE slots

\* The slots after the player's token is taken off group 0.
Cleared(player) ==
    LET i == Min({j \in DOMAIN slots[0] : slots[0][j].player = player})
    IN  [slots EXCEPT ![0][i] = NoSlot]

placements == valid_placings(grid[whose_turn], ALL_TILES[whose_tile])

\* Mutant: the finished step returns True.
StepFinishedReturnsTrue ==
    /\ whose_turn = None
    /\ deck = <<>>
    /\ ret' = "True"
    /\ offer' = NoOffer
    /\ decision' = NoDecision
    /\ UNCHANGED <<deck, slots, grid, strikes, hand>>

\* Mutant: the finished step rotates group 1 into group 0.
StepFinishedRotates ==
    /\ whose_turn = None
    /\ deck = <<>>
    /\ ret' = "False"
    /\ offer' = NoOffer
    /\ decision' = NoDecision
    /\ slots' = [group \in 0..1 |-> IF group = 0 THEN slots[1] ELSE [i \in 1..4 |-> NoSlot]]
    /\ UNCHANGED <<deck, grid, strikes, hand>>

\* No player is active and the deck is empty: the game is over.
StepFinished ==
    /\ whose_turn = None
    /\ deck = <<>>
    /\ ret' = "False"
    /\ offer' = NoOffer
    /\ decision' = NoDecision
    /\ UNCHANGED <<deck, slots, grid, strikes, hand>>

\* No player is active and the deck is not empty: _deal(), which raises when
\* a slot of group 0 still holds a tile.
StepDeal ==
    /\ whose_turn = None
    /\ deck # <<>>
    /\ IF DealAsserts
       THEN /\ slots' = [group \in 0..1 |-> IF group = 0 THEN slots[1] ELSE _draw(deck)]
            /\ deck' = DeckAfterDraw(deck)
            /\ ret' = "True"
       ELSE /\ ret' = "AssertionError"
            /\ UNCHANGED <<deck, slots>>
    /\ offer' = NoOffer
    /\ decision' = NoDecision
    /\ UNCHANGED <<grid, strikes, hand>>

\* The active player has no claim in group 1 and choose_tile(choices) returns
\* choice (None: no decision yet).
Choose(choice, strike) ==
    /\ offer' = [kind |-> "choose", player |-> whose_turn, tile |-> None,
                 choices |-> choices]
    /\ decision' = IF choice = None THEN NoDecision
                   ELSE [kind |-> "tile", tile |-> choice, placing |-> <<>>]
    /\ slots' = IF choice = None THEN slots ELSE Claim(choice, whose_turn)
    /\ strikes' = strikes + strike
    /\ ret' = "True"
    /\ UNCHANGED <<deck, grid, hand>>

\* The active player has a claim and no previous tile: the token comes off.
StepBye ==
    /\ whose_turn # None
    /\ has_chosen
    /\ whose_tile = None
    /\ offer' = [kind |-> "bye", player |-> whose_turn, tile |-> None,
                 choices |-> <<>>]
    /\ decision' = NoDecision
    /\ slots' = Cleared(whose_turn)
    /\ ret' = "True"
    /\ UNCHANGED <<deck, grid, strikes, hand>>

\* Mutant: did_place is not set when there is no valid placement.
StepDiscardKeepsToken ==
    /\ whose_turn # None
    /\ has_chosen
    /\ whose_tile # None
    /\ placements = {}
    /\ offer' = [kind |-> "discard", player |-> whose_turn, tile |-> whose_tile,
                 choices |-> <<>>]
    /\ decision' = NoDecision
    /\ ret' = "True"
    /\ UNCHANGED <<deck, slots, grid, strikes, hand>>

\* The previous tile has no valid placement: it is discarded.
StepDiscard ==
    /\ whose_turn # None
    /\ has_chosen
    /\ whose_tile # None
    /\ placements = {}
    /\ offer' = [kind |-> "discard", player |-> whose_turn, tile |-> whose_tile,
                 choices |-> <<>>]
    /\ decision' = NoDecision
    /\ slots' = Cleared(whose_turn)
    /\ ret' = "True"
    /\ UNCHANGED <<deck, grid, strikes, hand>>

\* Mutant: did_place is set whatever place_tile returns.
PlaceAtAlwaysClears(S, placement, strike) ==
    /\ offer' = [kind |-> "place", player |-> whose_turn, tile |-> whose_tile,
                 choices |-> <<>>]
    /\ decision' = IF placement = <<>> THEN NoDecision
                   ELSE [kind |-> "placing", tile |-> None, placing |-> placement]
    /\ grid' = IF placement = <<>> THEN grid
               ELSE [grid EXCEPT ![whose_turn] = set_tile(@, placement, ALL_TILES[whose_tile])]
    /\ slots' = Cleared(whose_turn)
    /\ strikes' = strikes + strike
    /\ ret' = IF placement # <<>> /\ SetTileRaises(placement) THEN "IndexError" ELSE "True"
    /\ UNCHANGED <<deck, hand>>

\* The previous tile has the valid placements S: place_tile(tile, S) returns
\* placement (<<>>: no decision yet), which is applied as returned. When
\* set_tile raises, step() ends there: the token stays on group 0.
PlaceAt(S, placement, strike) ==
    /\ offer' = [kind |-> "place", player |-> whose_turn, tile |-> whose_tile,
                 choices |-> <<>>]
    /\ decision' = IF placement = <<>> THEN NoDecision
                   ELSE [kind |-> "placing", tile |-> None, placing |-> placement]
    /\ grid' = IF placement = <<>> THEN grid
               ELSE [grid EXCEPT ![whose_turn] = set_tile(@, placement, ALL_TILES[whose_tile])]
    /\ slots' = IF placement = <<>> \/ SetTileRaises(placement) THEN slots
                ELSE Cleared(whose_turn)
    /\ strikes' = strikes + strike
    /\ ret' = IF placement # <<>> /\ SetTileRaises(placement) THEN "IndexError" ELSE "True"
    /\ UNCHANGED <<deck, hand>>

----------------------------------------------------------------------------
(* The strategies: what choose_tile and place_tile may return.             *)

\* Returns other than the default player's are explored for the first
\* FreeRounds rounds, at most MaxStrikes of them (None apart) in a game.
MaxStrikes == 1
FreeRounds == 2

Free ==
    /\ strikes < MaxStrikes
    /\ Len(deck) + DrawSize * FreeRounds >= Len(ALL_TILES)

\* Placings in the order of Python's tuple comparison.
PlacingKey(pl) ==
    (((pl[1][1] + GridOffset) * GridSize + (pl[1][2] + GridOffset)) * GridSize
        + (pl[2][1] + GridOffset)) * GridSize + (pl[2][2] + GridOffset)

FirstPlacing(S) == CHOOSE pl \in S : \A o \in S : PlacingKey(pl) <= PlacingKey(o)
LastPlacing(S) == CHOOSE pl \in S : \A o \in S : PlacingKey(pl) >= PlacingKey(o)

\* Player.choose_tile returns choices[0]; another strategy may return None
\* or any other offered tile.
ChooseReturns ==
    (IF Free THEN {<<None, 0>>} ELSE {}) \cup
    (IF choices # <<>> THEN {<<choices[1], 0>>} ELSE {}) \cup
    (IF Free /\ choices # <<>>
     THEN {<<c, 1>> : c \in Range(choices) \ {choices[1]}} ELSE {})

\* Returns that break the contract: a tile of group 1 another player has
\* claimed, or a tile that is not in group 1 (the next of the deck).
RogueChoices ==
    {slots[1][i].tile : i \in {j \in DOMAIN slots[1] : slots[1][j].player # None}}
        \cup (IF deck # <<>> THEN {deck[Len(deck)]} ELSE {})

\* Player.place_tile returns the first placing of the set's iteration, taken
\* here to be the least; another strategy may return None or another placing
\* of the set, of which the greatest is explored.
PlaceReturns(S) ==
    {<<FirstPlacing(S), 0>>} \cup
    (IF Free THEN {<<(<<>>), 0>>} \cup ({<<LastPlacing(S), 1>>} \ {<<FirstPlacing(S), 1>>})
     ELSE {})

\* Returns that break the contract: a placing over the base, one in a far
\* corner of the grid, one left of the grid and one across its right edge.
RoguePlacings ==
    { << <<0, 0>>, <<1, 0>> >>, << <<4, 4>>, <<3, 4>> >>,
      << <<-5, 0>>, <<-6, 0>> >>, << <<4, 0>>, <<5, 0>> >> }

StepChoose ==
    /\ whose_turn # None /\ ~has_chosen
    /\ \E r \in ChooseReturns : Choose(r[1], r[2])

StepChooseRogue ==
    /\ Free
    /\ whose_turn # None /\ ~has_chosen
    /\ \E c \in RogueChoices : Choose(c, 1)

StepPlace ==
    /\ whose_turn # None /\ has_chosen /\ whose_tile # None
    /\ LET S == placements IN
       S # {} /\ \E r \in PlaceReturns(S) : PlaceAt(S, r[1], r[2])

StepPlaceRogue ==
    /\ Free
    /\ whose_turn # None /\ has_chosen /\ whose_tile # None
    /\ LET S == placements IN
       S # {} /\ \E pl \in RoguePlacings \ S : PlaceAt(S, pl, 1)

----------------------------------------------------------------------------
(* Game(players, seed) and the default players, as in test2.               *)

\* The lengths of the list of players handed to Game().
PlayerCounts == 1..4

\* No Game object yet.
InitNew ==
    /\ deck = <<>>
    /\ slots = [group \in 0..1 |-> [i \in 1..4 |-> NoSlot]]
    /\ grid = [p \in Players |-> NewGrid]
    /\ ret = "NoGame"
    /\ offer = NoOffer
    /\ decision = NoDecision
    /\ strikes = 0
    /\ hand = None

Constructed == ret # "NoGame" /\ ~(offer.kind = "new" /\ ret = "IndexError")

\* Group 0 is built from self.players[i] for i in range(0, 4), whatever the
\* length n of the list.
GroupZeroRaises(n) == \E i \in 1..4 : i > n

\* Game.__init__ on a list of n players: an exception leaves no Game.
Construct ==
    /\ ~Constructed
    /\ \E n \in PlayerCounts, k \in Seeds :
          /\ offer' = [kind |-> "new", player |-> n, tile |-> None, choices |-> <<>>]
          /\ IF GroupZeroRaises(n)
             THEN /\ ret' = "IndexError"
                  /\ UNCHANGED <<deck, slots>>
             ELSE /\ ret' = "True"
                  /\ deck' = DeckAfterDraw(Shuffled(k))
                  /\ slots' = [group \in 0..1 |->
                                  IF group = 0
                                  THEN [i \in 1..4 |-> [tile |-> None, player |-> i]]
                                  ELSE _draw(Shuffled(k))]
    /\ decision' = NoDecision
    /\ UNCHANGED <<grid, strikes, hand>>

\* Mutant: choose_tile returns any of the choices.
choose_tileAny(cs) == Range(cs)

\* Player.choose_tile: choices[0].
choose_tile(cs) == {cs[1]}

\* Mutant: place_tile returns any placing of the set.
place_tileAny(S) == S

\* Player.place_tile: the first placing of the set's iteration, which the
\* set's contents decide; taken here to be the least.
place_tile(S) == {FirstPlacing(S)}

DefaultStepFinished == Constructed /\ StepFinished

DefaultStepDeal == Constructed /\ StepDeal

DefaultStepChoose ==
    /\ Constructed
    /\ whose_turn # None /\ ~has_chosen
    /\ choices # <<>>
    /\ \E c \in choose_tile(choices) : Choose(c, 0)

DefaultStepBye == Constructed /\ StepBye

DefaultStepDiscard == Constructed /\ StepDiscard

DefaultStepPlace ==
    /\ Constructed
    /\ whose_turn # None /\ has_chosen /\ whose_tile # None
    /\ LET S == placements IN
       S # {} /\ \E pl \in place_tile(S) : PlaceAt(S, pl, 0)

NextDefault ==
    \/ Construct
    \/ DefaultStepFinished
    \/ DefaultStepDeal
    \/ DefaultStepChoose
    \/ DefaultStepBye
    \/ DefaultStepDiscard
    \/ DefaultStepPlace

SpecDefault == InitNew /\ [][NextDefault]_vars

\* Strategies that keep to what they are offered.
NextHonest ==
    \/ StepFinished
    \/ StepDeal
    \/ StepChoose
    \/ StepBye
    \/ StepDiscard
    \/ StepPlace

SpecHonest == InitGame /\ [][NextHonest]_vars

\* The loop of test2 calls step() again and again: a step that needs no
\* decision is eventually taken, and so is a choice the strategy has made.
SpecFair ==
    /\ SpecHonest
    /\ WF_vars(StepFinished)
    /\ WF_vars(StepDeal)
    /\ WF_vars(StepBye)
    /\ WF_vars(StepChoose /\ decision'.kind = "tile")

\* Any strategy.
Next ==
    \/ StepFinished
    \/ StepDeal
    \/ StepChoose
    \/ StepChooseRogue
    \/ StepBye
    \/ StepDiscard
    \/ StepPlace
    \/ StepPlaceRogue

Spec == InitGame /\ [][Next]_vars

----------------------------------------------------------------------------
(* Regions and legal placements, stated from the rules of the game.        *)

Neighbours(a) ==
    {c \in {<<a[1], a[2] - 1>>, <<a[1] - 1, a[2]>>, <<a[1] + 1, a[2]>>, <<a[1], a[2] + 1>>} :
        c \in Coords}

\* The maximal orthogonally-contiguous same-environment set of cells around c.
RECURSIVE Grow(_, _, _)
Grow(g, env, S) ==
    LET N == S \cup {d \in UNION {Neighbours(c) : c \in S} : at(g, d).environment = env}
    IN  IF N = S THEN S ELSE Grow(g, env, N)

RegionOf(g, c) == Grow(g, at(g, c).environment, {c})

Regions(g) == {RegionOf(g, c) : c \in Occupied(g)}

RECURSIVE SumCrowns(_, _)
SumCrowns(g, S) ==
    IF S = {} THEN 0
    ELSE LET c == CHOOSE c \in S : TRUE IN at(g, c).crowns + SumCrowns(g, S \ {c})

RECURSIVE SumRegions(_, _)
SumRegions(g, RS) ==
    IF RS = {} THEN 0
    ELSE LET R == CHOOSE R \in RS : TRUE
         IN  SumCrowns(g, R) * Cardinality(R) + SumRegions(g, RS \ {R})

RegionScore(g) == SumRegions(g, Regions(g))

\* Width or height, in cells, of a set of columns or rows with two more.
Span(vs, v1, v2) == Max({Max(vs), v1, v2}) - Min({Min(vs), v1, v2}) + 1

Touches(g, c, env) ==
    \E n \in Neighbours(c) : at(g, n).environment \in {"BASE", env}

LegalPlacings(g, tile) ==
    LET occ == Occupied(g)
        xs == {c[1] : c \in occ}
        ys == {c[2] : c \in occ}
        free == Coords \ occ
    IN  {pl \in UNION {{<<a, b>> : b \in Neighbours(a) \cap free} : a \in free} :
            /\ Span(xs, pl[1][1], pl[2][1]) <= 5
            /\ Span(ys, pl[1][2], pl[2][2]) <= 5
            /\ \/ Touches(g, pl[1], tile.cells[1].environment)
               \/ Touches(g, pl[2], tile.cells[2].environment)}

----------------------------------------------------------------------------
(* Claims about the grid, the search, the scorer and the enumerator.       *)

\* C1: on every grid built from placements of valid_placings, score() is the
\* sum over the regions of (crowns in the region) x (cells in the region).
C1_ScoreIsRegionSum == \A p \in Players : score(grid[p]) = RegionScore(grid[p])

\* C2: valid_placings(tile) is exactly the set of legal placements: ordered
\* pairs of adjacent empty cells of the grid that keep the occupied cells
\* within 5 x 5 and of which one cell touches the base or its own environment.
C2_ExactlyLegal ==
    hand # None =>
        valid_placings(grid[1], ALL_TILES[hand]) = LegalPlacings(grid[1], ALL_TILES[hand])

\* C2 witness: two tiles are laid, the 5x5 rule rejects an otherwise legal
\* placement, and a placement is returned together with its reverse.
C2_Witness ==
    /\ hand # None
    /\ NumPlaced(grid[1]) = 2
    /\ \E pl \in valid_placings(grid[1], ALL_TILES[hand]) :
          <<pl[2], pl[1]>> \in valid_placings(grid[1], ALL_TILES[hand])
    /\ \E pl \in valid_placings(grid[1], ALL_TILES[hand]) :
          <<pl[2], pl[1]>> \notin valid_placings(grid[1], ALL_TILES[hand])
    /\ \E a \in Coords : \E b \in Neighbours(a) :
          /\ at(grid[1], a).environment = "EMPTY"
          /\ at(grid[1], b).environment = "EMPTY"
          /\ Touches(grid[1], a, ALL_TILES[hand].cells[1].environment)
          /\ Span({c[1] : c \in Occupied(grid[1])}, a[1], b[1]) > 5

\* A coordinate sequence without repetition.
NoRepeat(s) == \A i, j \in DOMAIN s : i # j => s[i] # s[j]

\* C4: search() yields the cells of every region as one consecutive run: once
\* a region is entered, no cell of another region is yielded before every
\* cell of that region has been yielded.
C4_RegionsConsecutive ==
    \A p \in Players :
        LET s == search(grid[p], Origin) IN
        \A i, j \in DOMAIN s :
            (i < j /\ s[j] \notin RegionOf(grid[p], s[i])) =>
                RegionOf(grid[p], s[i]) \subseteq {s[k] : k \in 1..(j - 1)}

\* C5: search() yields every non-empty cell exactly once, and no empty cell.
C5_EveryCellOnce ==
    \A p \in Players :
        LET s == search(grid[p], Origin) IN
        NoRepeat(s) /\ Range(s) = Occupied(grid[p])

\* C7: the enumerator never returns a placement with a coordinate outside
\* [-4,4] or on a non-empty cell, and computing it never trips the bounds
\* assertion of at().
C7_InRangeEmptyNoAssert ==
    hand # None =>
        /\ \A pl \in valid_placings(grid[1], ALL_TILES[hand]) : \A i \in 1..2 :
              pl[i] \in Coords /\ at(grid[1], pl[i]).environment = "EMPTY"
        /\ ~EnumeratorAsserts(grid[1])

\* C7 witness: the grid reaches the edge of its 5 x 5 footprint, tile_adj
\* proposes cells outside the grid and cells that are taken, and placements
\* are returned.
C7_Witness ==
    /\ hand # None
    /\ valid_placings(grid[1], ALL_TILES[hand]) # {}
    /\ \E pl \in Candidates(grid[1]) : \E i \in 1..2 : pl[i] \notin Coords
    /\ \E pl \in Candidates(grid[1]) :
          pl[1] \in Coords /\ at(grid[1], pl[1]).environment # "EMPTY"

----------------------------------------------------------------------------
(* Claims about the game.                                                  *)

Claimed(slot) == slot.tile # None /\ slot.player # None

\* C3: when step() returns False the deck is empty and no slot of group 0 or
\* group 1 still holds a claimed tile that was neither placed nor discarded.
C3_FinishedMeansSettled ==
    ret = "False" =>
        /\ deck = <<>>
        /\ \A group \in 0..1 : \A i \in DOMAIN slots[group] : ~Claimed(slots[group][i])

\* The cells of the whole array that hold a base.
BaseCells(g) == {ij \in Index \X Index : g[ij[1]][ij[2]].environment = "BASE"}

Width(g) == Span({c[1] : c \in Occupied(g)}, 0, 0)
Height(g) == Span({c[2] : c \in Occupied(g)}, 0, 0)

\* C6: with strategies that return only offered placements, every player's
\* grid has exactly one base cell, at (0,0), and its non-empty cells fit in
\* 5 x 5.
C6_OneBaseWithin5x5 ==
    \A p \in Players :
        /\ BaseCells(grid[p]) = {<<0 + GridOffset, 0 + GridOffset>>}
        /\ Width(grid[p]) <= 5
        /\ Height(grid[p]) <= 5

\* C6 witness: a placement has just filled a grid to the full width of 5.
C6_Witness ==
    /\ offer.kind = "place"
    /\ decision.kind = "placing"
    /\ Width(grid[offer.player]) = 5
    /\ decision.placing[1][1] \in {Min({c[1] : c \in Occupied(grid[offer.player])}),
                                   Max({c[1] : c \in Occupied(grid[offer.player])})}

\* C8: after a deal the players act in ascending order of the tiles they
\* hold in group 0: when a player has acted, every other player still waiting
\* in group 0 holds a higher-numbered tile.
C8_LowestTileActsFirst ==
    (offer.player # None /\ offer.tile # None) =>
        \A i \in DOMAIN slots[0] :
            slots[0][i].player \notin {None, offer.player} =>
                slots[0][i].tile > offer.tile

\* C8 witness: a player has placed its tile while a player with a lower
\* number, holding a higher tile, still waits.
C8_Witness ==
    /\ offer.kind = "place"
    /\ decision.kind = "placing"
    /\ \E i \in DOMAIN slots[0] :
          /\ slots[0][i].player # None
          /\ slots[0][i].player < offer.player
          /\ slots[0][i].tile > offer.tile

\* C9: a step whose strategy returns None returns True and changes nothing
\* of the deck, the slots and the grids, and the step after it makes the
\* same offer to the same player.
C9_NoDecisionNoChange ==
    [][ /\ (decision'.kind = "none" /\ offer'.kind \in {"choose", "place"}) =>
            /\ ret' = "True"
            /\ deck' = deck /\ slots' = slots /\ grid' = grid
            /\ whose_turn' = whose_turn /\ whose_tile' = whose_tile
            /\ choices' = choices
            /\ (offer'.kind = "place" => placements' = placements)
        /\ (decision.kind = "none" /\ offer.kind \in {"choose", "place"}) =>
            /\ offer'.kind = offer.kind
            /\ offer'.player = offer.player
            /\ offer'.tile = offer.tile
            /\ offer'.choices = offer.choices ]_vars

\* C9 witness: a placement was offered and the strategy returned None.
C9_Witness ==
    /\ offer.kind = "place"
    /\ decision.kind = "none"
    /\ placements # {}

\* C10: a placement outside the offered set is rejected: the step does not
\* return normally and leaves the grids and the slots as they were.
C10_IllegalPlacementRejected ==
    [][ (offer'.kind = "place" /\ decision'.kind = "placing"
            /\ decision'.placing \notin placements) =>
        (ret' # "True" /\ grid' = grid /\ slots' = slots) ]_vars

\* C11: a choice that was not offered is rejected and no slot changes; the
\* claim another player holds in group 1 is not overwritten.
C11_UnofferedChoiceRejected ==
    [][ (offer'.kind = "choose" /\ decision'.kind = "tile"
            /\ decision'.tile \notin Range(offer'.choices)) =>
        slots' = slots ]_vars

\* C12: once the deck is empty and every slot of group 0 is (None, None),
\* every step returns False and changes nothing of the deck, the slots and
\* the grids.
C12_FinishedStaysFinished ==
    [][ (deck = <<>> /\ \A i \in DOMAIN slots[0] : slots[0][i] = NoSlot) =>
        (ret' = "False" /\ deck' = deck /\ slots' = slots /\ grid' = grid) ]_vars

\* C12 witness: a game played to the end, whose last step returned False.
C12_Witness ==
    /\ ret = "False"
    /\ deck = <<>>
    /\ \A i \in DOMAIN slots[0] : slots[0][i] = NoSlot
    /\ \A p \in Players : Cardinality(Occupied(grid[p])) > 1

\* C13: a coordinate outside [-4,4] is rejected by at(), and a write to it
\* through set_tile fails and changes no cell of the grid.
C13_OutOfRangeRejected ==
    [][ (offer'.kind = "place" /\ decision'.kind = "placing") =>
        \A i \in 1..2 :
            decision'.placing[i] \notin Coords =>
                /\ ~AtAsserts(decision'.placing[i])
                /\ ret' # "True"
                /\ grid' = grid ]_vars

\* C14: Game(players) on a list of N players, 1 <= N <= 4, succeeds: group 0
\* holds exactly the N players, each once and with no tile, and group 1 holds
\* four tiles in ascending order with no player.
C14_AnyPlayerCountConstructs ==
    offer.kind = "new" =>
        /\ ret = "True"
        /\ {slots[0][i].player : i \in DOMAIN slots[0]} \ {None} = 1..offer.player
        /\ Cardinality({i \in DOMAIN slots[0] : slots[0][i].player # None}) = offer.player
        /\ \A i \in DOMAIN slots[0] : slots[0][i].tile = None
        /\ Len(slots[1]) = 4
        /\ \A i \in DOMAIN slots[1] :
              slots[1][i].tile # None /\ slots[1][i].player = None
        /\ \A i, j \in DOMAIN slots[1] : i < j => slots[1][i].tile < slots[1][j].tile

\* The placements the next step has to decide among (none when the step is
\* not a placing).
Placeable ==
    IF whose_turn # None /\ has_chosen /\ whose_tile # None THEN placements ELSE {}

C16_DealRotatesAndDraws ==
    [][ deck' # deck =>
        /\ \A i \in DOMAIN slots[0] : slots[0][i].player = None
        /\ deck # <<>>
        /\ slots'[0] = slots[1]
        /\ Len(slots'[1]) = 4
        /\ \A i \in DOMAIN slots'[1] : slots'[1][i].player = None
        /\ \A i, j \in DOMAIN slots'[1] : i < j => slots'[1][i].tile < slots'[1][j].tile
        /\ {slots'[1][i].tile : i \in DOMAIN slots'[1]}
              = {deck[k] : k \in (Len(deck) - 3)..Len(deck)}
        /\ Len(deck') = Len(deck) - 4
        /\ \A k \in DOMAIN deck' : deck'[k] = deck[k]
        /\ grid' = grid
        /\ offer'.player = None
        /\ decision'.kind = "none"
        /\ ret' = "True" ]_vars

\* C16 witness: a deal in mid-game has just put four claimed tiles in group
\* 0 and four fresh ones in group 1.
C16_Witness ==
    /\ offer.kind = "none"
    /\ ret = "True"
    /\ Len(deck) <= 36
    /\ \A i \in DOMAIN slots[0] : Claimed(slots[0][i])
    /\ \A i \in DOMAIN slots[1] : slots[1][i].tile # None /\ slots[1][i].player = None

\* C17: a choosing step offers the active player exactly the tiles of group
\* 1 nobody has claimed, in ascending order; when the player returns one of
\* them only the slot of that tile changes, to (tile, player), and the other
\* slots, the deck and the grids are unchanged. No tile lies in two slots of
\* group 1, so no tile has two claimants.
C17_ChooseChangesOneSlot ==
    /\ [](\A i, j \in DOMAIN slots[1] :
            (i # j /\ slots[1][i].tile # None) => slots[1][i].tile # slots[1][j].tile)
    /\ [][ offer'.kind = "choose" =>
            /\ offer'.player = whose_turn
            /\ offer'.choices =
                  SortAscending({slots[1][i].tile :
                                   i \in {j \in DOMAIN slots[1] : slots[1][j].player = None}})
            /\ (decision'.kind = "tile" /\ decision'.tile \in Range(offer'.choices)) =>
                  /\ \E i \in DOMAIN slots[1] :
                        /\ slots[1][i] = [tile |-> decision'.tile, player |-> None]
                        /\ slots' = [slots EXCEPT ![1][i] =
                                        [tile |-> decision'.tile, player |-> whose_turn]]
                  /\ deck' = deck
                  /\ grid' = grid ]_vars

\* C17 witness: a player offered several tiles, one of them already taken
\* by another player, has claimed a tile that is not the lowest offered.
C17_Witness ==
    /\ offer.kind = "choose"
    /\ decision.kind = "tile"
    /\ Len(offer.choices) \in 2..3
    /\ decision.tile \in Range(offer.choices) \ {offer.choices[1]}
    /\ \E i \in DOMAIN slots[1] : slots[1][i] = [tile |-> decision.tile, player |-> offer.player]

\* C18: when the active player has its claim and its tile of group 0 has no
\* valid placement, or is None, that one step clears the player's slot of
\* group 0 to (None, None) without consulting place_tile and changes no grid.
C18_DiscardOrByeClearsSlot ==
    [][ (whose_turn # None
            /\ (\E j \in DOMAIN slots[1] : slots[1][j].player = whose_turn)
            /\ (whose_tile = None \/ placements = {})) =>
        /\ slots' = [slots EXCEPT ![0][ActiveSlot] = NoSlot]
        /\ grid' = grid
        /\ deck' = deck
        /\ offer'.kind = (IF whose_tile = None THEN "bye" ELSE "discard")
        /\ offer'.player = whose_turn
        /\ decision'.kind = "none"
        /\ ret' = "True" ]_vars

\* C18 witness: a tile has just been discarded by a player that still had
\* empty cells next to its kingdom.
C18_Witness ==
    /\ offer.kind = "discard"
    /\ offer.tile # None
    /\ \A i \in DOMAIN slots[0] : slots[0][i].player # offer.player
    /\ valid_placings(grid[offer.player], ALL_TILES[offer.tile]) = {}
    /\ Cardinality(Occupied(grid[offer.player])) >= 3

C20_ClaimThenResolve ==
    [][ /\ \A i \in DOMAIN slots[0] :
              (slots[0][i].player # None /\ slots'[0][i].player # slots[0][i].player) =>
                  \E j \in DOMAIN slots[1] : slots[1][j].player = slots[0][i].player
        /\ \A i \in DOMAIN slots[0] :
              (/\ slots[0][i].player # None
               /\ \E j \in DOMAIN slots[1] : slots[1][j].player = slots[0][i].player) =>
                  /\ i = ActiveSlot
                  /\ slots'[1] = slots[1]
                  /\ \A k \in DOMAIN slots[0] : k # i => slots'[0][k] = slots[0][k]
                  /\ \A p \in Players \ {slots[0][i].player} : grid'[p] = grid[p] ]_vars

\* C20 witness: a player has claimed a tile, then laid its previous one and
\* left group 0, while another player still waits there for its turn.
C20_Witness ==
    /\ offer.kind = "place"
    /\ decision.kind = "placing"
    /\ \E j \in DOMAIN slots[1] : slots[1][j].player = offer.player
    /\ \A i \in DOMAIN slots[0] : slots[0][i].player # offer.player
    /\ \E i \in DOMAIN slots[0] :
          /\ Claimed(slots[0][i])
          /\ \A j \in DOMAIN slots[1] : slots[1][j].player # slots[0][i].player

\* The active player has its claim and a tile of group 0 to resolve.
Pending == whose_turn # None /\ has_chosen /\ whose_tile # None

\* C21: when step() is called again and again and every tile waiting to be
\* resolved is eventually placed or discarded (the strategy eventually
\* returns a decision), the game eventually returns False, with the deck
\* dealt out.
C21_EventuallyFinished ==
    ([](Pending => <>~Pending)) => <>(ret = "False" /\ deck = <<>>)

\* C21 witness: a game in which a strategy took its time and did not play
\* the default has returned False.
C21_Witness ==
    /\ ret = "False"
    /\ deck = <<>>
    /\ strikes = MaxStrikes
    /\ whose_turn = None

\* The tiles held by the slots of a group, as a sequence with repetitions.
RECURSIVE SlotTiles(_, _)
SlotTiles(group, i) ==
    IF i > Len(group) THEN <<>>
    ELSE (IF group[i].tile # None THEN <<group[i].tile>> ELSE <<>>) \o SlotTiles(group, i + 1)

\* The tiles of the deck and of the two groups, one entry per place.
Tracked == deck \o SlotTiles(slots[0], 1) \o SlotTiles(slots[1], 1)

RECURSIVE PlacedBy(_)
PlacedBy(P) ==
    IF P = {} THEN 0
    ELSE LET p == CHOOSE q \in P : TRUE IN NumPlaced(grid[p]) + PlacedBy(P \ {p})

SlotsOf(group, p) == {i \in DOMAIN group : group[i].player = p}

\* C23: with four players that return only what they are offered, a player
\* has at most one token in group 0 and at most one in group 1; the assertion
\* of _deal() never fails; when a deal happens every slot of group 0 is
\* (None, None) and every player holds exactly one claim in group 1, so that
\* after the deal every player is in group 0 again.
C23_NoPlayerDropped ==
    /\ [](/\ \A p \in Players :
                /\ Cardinality(SlotsOf(slots[0], p)) <= 1
                /\ Cardinality(SlotsOf(slots[1], p)) <= 1
                /\ SlotsOf(slots[0], p) \cup SlotsOf(slots[1], p) # {}
           /\ ret # "AssertionError")
    /\ [][ deck' # deck =>
            /\ \A i \in DOMAIN slots[0] : slots[0][i] = NoSlot
            /\ \A p \in Players : Cardinality(SlotsOf(slots[1], p)) = 1
            /\ \A p \in Players : Cardinality(SlotsOf(slots'[0], p)) = 1 ]_vars

\* C23 witness: after a choice that was not the lowest tile, a deal has put
\* all four players back in group 0 in an order other than the initial one.
C23_Witness ==
    /\ offer.kind = "none"
    /\ ret = "True"
    /\ strikes = 1
    /\ \A i \in DOMAIN slots[0] : Claimed(slots[0][i])
    /\ {slots[0][i].player : i \in DOMAIN slots[0]} = Players
    /\ \E i \in DOMAIN slots[0] : slots[0][i].player # i
    /\ \A i \in DOMAIN slots[1] : slots[1][i].player = None

\* The cells joined to those of S by paths of orthogonally adjacent non-empty
\* cells.
RECURSIVE Connected(_, _)
Connected(g, S) ==
    LET N == S \cup {d \in UNION {Neighbours(c) : c \in S} : at(g, d).environment # "EMPTY"}
    IN  IF N = S THEN S ELSE Connected(g, N)

\* C24: after any sequence of placements taken from valid_placings, every
\* non-empty cell of the grid is joined to the origin by a path of
\* orthogonally adjacent non-empty cells, and search() from the origin yields
\* every non-empty cell.
C24_AllCellsReached ==
    \A p \in Players :
        /\ Connected(grid[p], {Origin}) = Occupied(grid[p])
        /\ Range(search(grid[p], Origin)) = Occupied(grid[p])

\* C24 witness: two tiles are laid, and a cell three or more steps from the
\* origin is occupied.
C24_Witness ==
    /\ NumPlaced(grid[1]) = 2
    /\ \E c \in Occupied(grid[1]) :
          Max({c[1], -c[1]}) + Max({c[2], -c[2]}) >= 3

====
